---------------------------- MODULE Spec2Model ----------------------------
(***************************************************************************)
(* Segment consolidation and Croquis dataset export of SyFM:               *)
(*   transcription/transcription.py  TranscriptionSegment.merge            *)
(*   transcription/output_saver.py   CroquisOutputSaver                    *)
(*   transcription/transcription.py  TranscriptionOutput.to_json/from_json *)
(*   transcription/pipeline.py       TranscriptionPipeline.__call__        *)
(* Texts are sequences of one-character strings, so that the leading       *)
(* space merge() inserts and str.strip() are both visible.                 *)
(***************************************************************************)
EXTENDS Integers, Sequences, FiniteSets, TLC

VARIABLES
    audioFiles,   \* audio files on disk: path -> duration in ms (domain = existing paths)
    dsExists,     \* the dataset directory exists
    dsSubdir,     \* the dataset directory holds a subdirectory
    cropFiles,    \* crop audio files in the dataset directory: file name -> clip
    metadata,     \* metadata.txt of the dataset: [exists, lines]
    pc,           \* per caller: position inside CroquisOutputSaver.save
    call,         \* per caller: the saver's mode and strategy, and the transcription
    crops,        \* per caller: audios_crops, an insertion-ordered dict
    audio,        \* per caller: len(audio) of the AudioSegment loaded by _save_audio_crops
    nextCrop,     \* per caller: position of the export loop in audios_crops
    err,          \* per caller: the exception that ended the save ("" if none)
    moved,        \* per caller: the ingestion of this save renamed the file
    nsaves,       \* number of save calls made so far
    base,         \* per caller: metadata line count and crop files when the export began
    exports,      \* per source stem: saves that began to export (counted up to 2)
    fnIn,         \* input of the function under test (a list of segments)
    fnOut,        \* what the function under test returned or raised
    pipe          \* one call of the transcription pipeline: its arguments, position and results

vars == <<audioFiles, dsExists, dsSubdir, cropFiles, metadata, pc, call, crops,
          audio, nextCrop, err, moved, nsaves, base, exports, fnIn, fnOut, pipe>>

fsVars == <<audioFiles, dsExists, dsSubdir, cropFiles, metadata>>
histVars == <<base, exports>>
procVars == <<pc, call, crops, audio, nextCrop, err, moved, nsaves, histVars>>
fnVars == <<fnIn, fnOut, pipe>>

-----------------------------------------------------------------------------
(* Bounds of the model *)

\* longest segment list given to the functions under test
MaxLen == 3
\* number of save calls in one behaviour
MaxSaves == 3

(* Program constants *)

PAD_MS == 200
SILENCE_THRESHOLD_MS == 500
CropIdWidth == 5

-----------------------------------------------------------------------------
(* Values *)

Max(a, b) == IF a >= b THEN a ELSE b
Min(a, b) == IF a <= b THEN a ELSE b

SeqsUpTo(S, n) == UNION {[1..k -> S] : k \in 0..n}

Whitespace == {" ", "\t", "\n", "\r"}

\* str.strip(): drop leading and trailing whitespace
RECURSIVE LStrip(_)
LStrip(t) == IF t # <<>> /\ Head(t) \in Whitespace THEN LStrip(Tail(t)) ELSE t

RECURSIVE RStrip(_)
RStrip(t) ==
    IF t # <<>> /\ t[Len(t)] \in Whitespace THEN RStrip(SubSeq(t, 1, Len(t) - 1)) ELSE t

Strip(t) == RStrip(LStrip(t))

\* TranscriptionSegment(start_ms, end_ms, text)
TranscriptionSegment(s, e, t) == [start_ms |-> s, end_ms |-> e, text |-> t]

NoSegment == TranscriptionSegment(0, 0, <<>>)

\* Outcome of a call: a returned value or a raised exception
Return(v) == [ok |-> TRUE, val |-> v, err |-> ""]
Raise(e) == [ok |-> FALSE, val |-> <<>>, err |-> e]


-----------------------------------------------------------------------------
(* transcription/transcription.py *)

\* Mutant: the separator is added after each text instead of before it
RECURSIVE MergedTextTrailing(_)
MergedTextTrailing(segments) ==
    IF segments = <<>> THEN <<>>
    ELSE MergedTextTrailing(SubSeq(segments, 1, Len(segments) - 1))
             \o segments[Len(segments)].text \o <<" ">>

\* merged_text = ''; for segment in segments: merged_text += ' ' + segment.text
RECURSIVE MergedText(_)
MergedText(segments) ==
    IF segments = <<>> THEN <<>>
    ELSE MergedText(SubSeq(segments, 1, Len(segments) - 1))
             \o <<" ">> \o segments[Len(segments)].text

\* Mutant: end_ms is taken from the first segment
merge_first_end(segments) ==
    IF Len(segments) = 0 THEN Raise("ValueError")
    ELSE Return(TranscriptionSegment(segments[1].start_ms, segments[1].end_ms,
                                     MergedText(segments)))

\* Mutant: an empty list yields a zero segment instead of raising
merge_default(segments) ==
    IF Len(segments) = 0 THEN Return(NoSegment)
    ELSE Return(TranscriptionSegment(segments[1].start_ms,
                                     segments[Len(segments)].end_ms,
                                     MergedText(segments)))

\* TranscriptionSegment.merge
merge(segments) ==
    IF Len(segments) = 0 THEN Raise("ValueError")
    ELSE Return(TranscriptionSegment(segments[1].start_ms,
                                     segments[Len(segments)].end_ms,
                                     MergedText(segments)))

-----------------------------------------------------------------------------
(* transcription/output_saver.py: consolidation strategies *)

\* decimal digits of n >= 0, most significant first
RECURSIVE Digits(_)
Digits(n) == IF n < 10 THEN <<n>> ELSE Digits(n \div 10) \o <<n % 10>>

\* '{:05d}': zero-padded on the left to at least five digits
RECURSIVE ZeroPad(_, _)
ZeroPad(d, width) == IF Len(d) >= width THEN d ELSE ZeroPad(<<0>> \o d, width)

\* CROP_TEMPLATE.format(audio_source=stem, crop_id=idx)
CROP_TEMPLATE(audio_source, crop_id) ==
    [audio_source |-> audio_source, crop_id |-> ZeroPad(Digits(crop_id), CropIdWidth)]

\* A dict is the sequence of its items in insertion order; d[key] = val keeps
\* the position of a key already present.
DictSet(d, key, val) ==
    IF \E i \in 1..Len(d) : d[i].key = key
    THEN [i \in 1..Len(d) |-> IF d[i].key = key THEN [key |-> key, val |-> val] ELSE d[i]]
    ELSE Append(d, [key |-> key, val |-> val])

\* Path.stem and Path.suffix of a path [dir, stem, suffix]
Stem(path) == path.stem
Suffix(path) == path.suffix

\* CroquisOutputSaver._do_nothing_strategy: the loop, from position i on
RECURSIVE DoNothingLoop(_, _, _)
DoNothingLoop(transcription, i, cs) ==
    IF i > Len(transcription.transcription) THEN cs
    ELSE DoNothingLoop(transcription, i + 1,
             DictSet(cs, CROP_TEMPLATE(Stem(transcription.audio_path), i - 1),
                     transcription.transcription[i]))

\* Mutant: the enumeration misses the first segment
do_nothing_strategy_skip_first(transcription) ==
    Return(DoNothingLoop(transcription, 2, <<>>))

do_nothing_strategy(transcription) == Return(DoNothingLoop(transcription, 1, <<>>))

\* Mutant: a gap equal to the threshold breaks the group
WithinThresholdStrict(silence_duration) == silence_duration < SILENCE_THRESHOLD_MS

\* silence_duration <= self.SILENCE_THRESHOLD_MS
WithinThreshold(silence_duration) == silence_duration <= SILENCE_THRESHOLD_MS

\* CroquisOutputSaver._threshold_strategy: the loop, from position i on, over
\* the locals st = [crops, idx, current_guesses, err]
RECURSIVE ThresholdLoop(_, _, _)
ThresholdLoop(transcription, i, st) ==
    IF i > Len(transcription.transcription) \/ st.err # "" THEN st
    ELSE LET segment == transcription.transcription[i]
             guesses == st.current_guesses
         IN  IF Len(guesses) = 0
             THEN ThresholdLoop(transcription, i + 1,
                      [st EXCEPT !.current_guesses = Append(guesses, segment)])
             ELSE LET silence_duration == segment.start_ms - guesses[Len(guesses)].end_ms
                  IN  IF WithinThreshold(silence_duration)
                      THEN ThresholdLoop(transcription, i + 1,
                               [st EXCEPT !.current_guesses = Append(guesses, segment)])
                      ELSE LET crop_idx == CROP_TEMPLATE(Stem(transcription.audio_path), st.idx)
                               merged == merge(guesses)
                           IN  IF ~merged.ok
                               THEN [st EXCEPT !.err = merged.err]
                               ELSE ThresholdLoop(transcription, i + 1,
                                        [crops |-> DictSet(st.crops, crop_idx, merged.val),
                                         idx |-> st.idx + 1,
                                         current_guesses |-> <<segment>>,
                                         err |-> ""])

\* Mutant: the last group is only emitted when it has a segment
threshold_strategy_guarded(transcription) ==
    LET st == ThresholdLoop(transcription, 1,
                  [crops |-> <<>>, idx |-> 0, current_guesses |-> <<>>, err |-> ""])
        crop_idx == CROP_TEMPLATE(Stem(transcription.audio_path), st.idx)
        merged == merge(st.current_guesses)
    IN  IF st.err # "" THEN Raise(st.err)
        ELSE IF Len(st.current_guesses) = 0 THEN Return(st.crops)
        ELSE IF ~merged.ok THEN Raise(merged.err)
        ELSE Return(DictSet(st.crops, crop_idx, merged.val))

\* Mutant: the group left open when the loop ends is not emitted
threshold_strategy_no_trailing(transcription) ==
    LET st == ThresholdLoop(transcription, 1,
                  [crops |-> <<>>, idx |-> 0, current_guesses |-> <<>>, err |-> ""])
    IN  IF st.err # "" THEN Raise(st.err) ELSE Return(st.crops)

threshold_strategy(transcription) ==
    LET st == ThresholdLoop(transcription, 1,
                  [crops |-> <<>>, idx |-> 0, current_guesses |-> <<>>, err |-> ""])
        crop_idx == CROP_TEMPLATE(Stem(transcription.audio_path), st.idx)
        merged == merge(st.current_guesses)
    IN  IF st.err # "" THEN Raise(st.err)
        ELSE IF ~merged.ok THEN Raise(merged.err)
        ELSE Return(DictSet(st.crops, crop_idx, merged.val))

\* Mutant: the strategy returns an empty mapping
normal_distribution_strategy_empty(transcription) == Return(<<>>)

\* CroquisOutputSaver._normal_distribution_strategy
normal_distribution_strategy(transcription) == Raise("NotImplementedError")

\* CroquisOutputSaver._to_croquis_format
to_croquis_format(strategy, transcription) ==
    IF strategy = "NOTHING" THEN do_nothing_strategy(transcription)
    ELSE IF strategy = "THRESHOLD" THEN threshold_strategy(transcription)
    ELSE IF strategy = "NORMAL" THEN normal_distribution_strategy(transcription)
    ELSE Raise("NotADirectoryError")

\* CroquisOutputSaver._save_audio_crops: the range sliced out of the audio
ClipStart(segment) == Max(0, segment.start_ms - PAD_MS)
\* Mutant: the padded end is not clamped to the audio
ClipEndUnclamped(segment, audio_len) == segment.end_ms + PAD_MS

ClipEnd(segment, audio_len) == Min(segment.end_ms + PAD_MS, audio_len)

\* CroquisOutputSaver._save_transcription: the line written for one crop,
\* f'{crop_idx}|{segment.text.strip()}\n'
MetadataLine(item) == [crop_idx |-> item.key, text |-> Strip(item.val.text)]

\* Mutant: the loop stops before the last crop
MetadataLinesButLast(audios_crops) ==
    [i \in 1..(Len(audios_crops) - 1) |-> MetadataLine(audios_crops[i])]

\* the lines written by the loop of _save_transcription: lines 230-231
MetadataLines(audios_crops) ==
    [i \in 1..Len(audios_crops) |-> MetadataLine(audios_crops[i])]

-----------------------------------------------------------------------------
(* Inputs *)

Times == {0, 500, 501, 1002}
Texts == {<<"a">>, <<" ", "b", " ">>}
Durations == {400, 1100}
Stems == {"a", "b"}

\* Segments as the engines deliver them: 0 <= start_ms <= end_ms
Segments ==
    {TranscriptionSegment(s, e, t) : <<s, e, t>> \in
        {x \in Times \X Times \X Texts : x[1] <= x[2]}}

AudioPath(dir, stem) == [dir |-> dir, stem |-> stem, suffix |-> ".wav"]

\* TranscriptionOutput(audio_path, engine, language, transcription)
TranscriptionOutput(audio_path, segments) ==
    [audio_path |-> audio_path, engine |-> "dummy", language |-> "en",
     transcription |-> segments]

\* audio paths of the outputs written as JSON
JsonPaths == {AudioPath("in1", "a"), AudioPath("ds", "b")}

-----------------------------------------------------------------------------
(* The JSON record of a TranscriptionOutput *)

\* d[key] and `key in d` of a dict
DictGet(d, key) == d[CHOOSE i \in 1..Len(d) : d[i].key = key].val
HasKey(d, key) == \E i \in 1..Len(d) : d[i].key = key

\* Mutant: only the file name is written
PathStrName(path) == <<path.stem, path.suffix>>

\* str(path): the directory, the separator and the name
PathStr(path) == <<path.dir, "/", path.stem, path.suffix>>

\* Path(s): the name is what follows the last separator, the suffix its last part
StrPath(s) ==
    [dir |-> IF Len(s) >= 4 THEN s[Len(s) - 3] ELSE ".",
     stem |-> s[Len(s) - 1],
     suffix |-> s[Len(s)]]

\* TranscriptionSegment._asdict
asdict(segment) ==
    <<[key |-> "start_ms", val |-> segment.start_ms],
      [key |-> "end_ms", val |-> segment.end_ms],
      [key |-> "text", val |-> segment.text]>>

\* TranscriptionOutput.to_dict
to_dict(t) ==
    <<[key |-> "audio_path", val |-> t.audio_path],
      [key |-> "engine", val |-> t.engine],
      [key |-> "language", val |-> t.language],
      [key |-> "transcription",
       val |-> [i \in 1..Len(t.transcription) |-> asdict(t.transcription[i])]]>>

\* TranscriptionOutput.to_json: the audio path becomes a str, and json.dumps
\* writes the dict as a JSON object
to_json(t) ==
    LET data == to_dict(t)
    IN  [i \in 1..Len(data) |->
            IF data[i].key = "audio_path"
            THEN [key |-> "audio_path", val |-> PathStr(data[i].val)]
            ELSE data[i]]

\* dataclasses.fields(TranscriptionOutput)
Fields == <<"audio_path", "engine", "language", "transcription">>

\* TranscriptionSegment(**segment)
SegmentOfDict(segment) ==
    TranscriptionSegment(DictGet(segment, "start_ms"), DictGet(segment, "end_ms"),
                         DictGet(segment, "text"))

\* TranscriptionOutput.from_json on a file holding the JSON object data
from_json(data) ==
    IF ~HasKey(data, "audio_path") \/ ~HasKey(data, "transcription")
    THEN Raise("KeyError")
    ELSE IF \E k \in 1..Len(Fields) : ~HasKey(data, Fields[k])
    THEN Raise("ValueError")
    ELSE Return([audio_path |-> StrPath(DictGet(data, "audio_path")),
                 engine |-> DictGet(data, "engine"),
                 language |-> DictGet(data, "language"),
                 transcription |->
                     [i \in 1..Len(DictGet(data, "transcription")) |->
                         SegmentOfDict(DictGet(data, "transcription")[i])]])

-----------------------------------------------------------------------------
(* The functions under test, each applied once to the drawn segment list *)

NoOut ==
    [op |-> "none", ok |-> TRUE, err |-> "", seg |-> NoSegment, crops |-> <<>>,
     clips |-> <<>>, stem |-> "", audio_len |-> 0,
     output |-> <<>>, json |-> <<>>, back |-> Raise("")]

FnMerge ==
    LET r == merge(fnIn)
    IN  /\ fnOut.op = "none"
        /\ fnOut' = [NoOut EXCEPT !.op = "merge", !.ok = r.ok, !.err = r.err,
                                  !.seg = IF r.ok THEN r.val ELSE NoSegment]
        /\ UNCHANGED <<fnIn, pipe, fsVars, procVars>>

FnStrategy(strategy, stem) ==
    LET r == to_croquis_format(strategy, TranscriptionOutput(AudioPath("in1", stem), fnIn))
    IN  /\ fnOut.op = "none"
        /\ fnOut' = [NoOut EXCEPT !.op = strategy, !.ok = r.ok, !.err = r.err,
                                  !.crops = r.val, !.stem = stem]
        /\ UNCHANGED <<fnIn, pipe, fsVars, procVars>>

\* the clip arithmetic of _save_audio_crops on each segment of the list
FnClip(audio_len) ==
    /\ fnOut.op = "none"
    /\ fnOut' = [NoOut EXCEPT !.op = "clip", !.audio_len = audio_len,
                    !.clips = [i \in 1..Len(fnIn) |->
                                  [start_ms |-> ClipStart(fnIn[i]),
                                   end_ms |-> ClipEnd(fnIn[i], audio_len)]]]
    /\ UNCHANGED <<fnIn, pipe, fsVars, procVars>>

\* BasicOutputSaver.save writes to_json() of the output to a file and
\* from_json reads the file back
FnRoundTrip(audio_path) ==
    LET t == TranscriptionOutput(audio_path, fnIn)
    IN  /\ fnOut.op = "none"
        /\ fnOut' = [NoOut EXCEPT !.op = "json", !.output = t, !.json = to_json(t),
                                  !.back = from_json(to_json(t))]
        /\ UNCHANGED <<fnIn, pipe, fsVars, procVars>>

-----------------------------------------------------------------------------
(* The file system and the callers of CroquisOutputSaver.save *)

\* the dataset directory output_dir / dataset_name, and two directories outside it
DatasetDir == "ds"
SourceDirs == {"in1", "in2"}
Dirs == SourceDirs \cup {DatasetDir}
AudioPaths == {AudioPath(d, st) : d \in Dirs, st \in Stems}

\* the audio files that exist, outside the dataset directory, before any save
InitialSources == {AudioPath("in1", "a"), AudioPath("in2", "a"), AudioPath("in1", "b")}

Procs == {"p1", "p2"}
Modes == {"WRITE", "APPEND"}
Strategies == {"NOTHING", "THRESHOLD", "NORMAL"}

\* transcriptions given to save: none, one, two segments 500 ms apart, two
\* segments 501 ms apart, and the output of the dummy engine
Seg1 == TranscriptionSegment(0, 0, <<"a">>)
Seg2 == TranscriptionSegment(500, 501, <<" ", "b", " ">>)
Seg3 == TranscriptionSegment(501, 1002, <<"a">>)
\* GreetingsEngine.transcribe: one segment whose end is the sentinel -1
Greeting ==
    TranscriptionSegment(0, -1, <<"H", "e", "l", "l", "o", " ", "w", "o", "r", "l", "d", "!">>)
Transcripts == {<<>>, <<Seg1>>, <<Seg1, Seg2>>, <<Seg1, Seg3>>, <<Greeting>>}

NoCall ==
    [mode |-> "APPEND", strategy |-> "NOTHING",
     transcription |-> TranscriptionOutput(AudioPath("in1", "a"), <<>>)]

NoMetadata == [exists |-> FALSE, lines |-> <<>>]

\* what a save has seen of the dataset before it begins to export
NoBase == [lines |-> 0, files |-> {}]

Exists(path) == path \in DOMAIN audioFiles

\* dataset_dir / transcription.audio_path.name
DatasetPath(path) == [dir |-> DatasetDir, stem |-> path.stem, suffix |-> path.suffix]

\* the audio files directly inside the dataset directory
DatasetAudio == {q \in DOMAIN audioFiles : q.dir = DatasetDir}

\* f without the keys in D
Without(f, D) == [x \in DOMAIN f \ D |-> f[x]]

\* Mutant: the file is copied, the source stays
RenameAsCopy(files, src, dst) ==
    [q \in DOMAIN files \cup {dst} |-> IF q = dst THEN files[src] ELSE files[q]]

\* Path.rename(target) on the audio files
Rename(files, src, dst) ==
    [q \in (DOMAIN files \ {src}) \cup {dst} |-> IF q = dst THEN files[src] ELSE files[q]]

Fail(p, e) ==
    /\ pc' = [pc EXCEPT ![p] = "failed"]
    /\ err' = [err EXCEPT ![p] = e]

Goto(p, label) ==
    /\ pc' = [pc EXCEPT ![p] = label]
    /\ UNCHANGED err

\* save is called (output_dir.mkdir included): lines 233-242
Save(p) ==
    /\ pc[p] \in {"idle", "done", "failed"}
    /\ nsaves < MaxSaves
    /\ \E mode \in Modes, strategy \in Strategies, path \in AudioPaths, segs \in Transcripts :
          call' = [call EXCEPT ![p] = [mode |-> mode, strategy |-> strategy,
                                       transcription |-> TranscriptionOutput(path, segs)]]
    /\ pc' = [pc EXCEPT ![p] = "ensure"]
    /\ err' = [err EXCEPT ![p] = ""]
    /\ crops' = [crops EXCEPT ![p] = <<>>]
    /\ audio' = [audio EXCEPT ![p] = 0]
    /\ nextCrop' = [nextCrop EXCEPT ![p] = 1]
    /\ moved' = [moved EXCEPT ![p] = FALSE]
    /\ nsaves' = nsaves + 1
    /\ base' = [base EXCEPT ![p] = NoBase]
    /\ UNCHANGED <<fsVars, exports, fnVars>>

\* Mutant: the clearing spares the audio files
ClearDatasetDirKeepsAudio(p) ==
    IF dsSubdir
    THEN /\ Fail(p, "OSError")
         /\ UNCHANGED <<audioFiles, dsExists, dsSubdir, cropFiles, metadata>>
    ELSE /\ cropFiles' = <<>>
         /\ metadata' = NoMetadata
         /\ Goto(p, "ingest")
         /\ UNCHANGED <<audioFiles, dsExists, dsSubdir>>

\* WRITE mode: for f in dataset_dir.iterdir(): f.unlink(), in the directory's
\* own order; unlink raises on a subdirectory, after the files listed before it
\* (any subset A, C, m of the files) have been deleted.
ClearDatasetDir(p) ==
    IF dsSubdir
    THEN /\ \E A \in SUBSET DatasetAudio, C \in SUBSET DOMAIN cropFiles, m \in BOOLEAN :
               /\ audioFiles' = Without(audioFiles, A)
               /\ cropFiles' = Without(cropFiles, C)
               /\ metadata' = IF m THEN NoMetadata ELSE metadata
         /\ Fail(p, "OSError")
         /\ UNCHANGED <<dsExists, dsSubdir>>
    ELSE /\ audioFiles' = Without(audioFiles, DatasetAudio)
         /\ cropFiles' = <<>>
         /\ metadata' = NoMetadata
         /\ Goto(p, "ingest")
         /\ UNCHANGED <<dsExists, dsSubdir>>

\* the dataset directory is cleared in WRITE mode and created: lines 244-253
EnsureDatasetDir(p) ==
    /\ pc[p] = "ensure"
    /\ IF call[p].mode = "WRITE" /\ dsExists
       THEN ClearDatasetDir(p)
       ELSE /\ dsExists' = TRUE
            /\ Goto(p, "ingest")
            /\ UNCHANGED <<audioFiles, dsSubdir, cropFiles, metadata>>
    /\ UNCHANGED <<call, crops, audio, nextCrop, moved, nsaves, histVars, fnVars>>

\* the source audio is moved into the dataset directory unless a file of its
\* name is there: lines 255-259
IngestSourceAudio(p) ==
    /\ pc[p] = "ingest"
    /\ LET src == call[p].transcription.audio_path
           audio_path == DatasetPath(src)
       IN  IF Exists(audio_path)
           THEN /\ Goto(p, "consolidate")
                /\ UNCHANGED <<audioFiles, moved>>
           ELSE IF ~Exists(src)
           THEN /\ Fail(p, "FileNotFoundError")
                /\ UNCHANGED <<audioFiles, moved>>
           ELSE /\ audioFiles' = Rename(audioFiles, src, audio_path)
                /\ moved' = [moved EXCEPT ![p] = TRUE]
                /\ Goto(p, "consolidate")
    /\ UNCHANGED <<dsExists, dsSubdir, cropFiles, metadata, call, crops, audio,
                   nextCrop, nsaves, histVars, fnVars>>

\* audios_crops = self._to_croquis_format(transcription): line 262
Consolidate(p) ==
    /\ pc[p] = "consolidate"
    /\ LET r == to_croquis_format(call[p].strategy, call[p].transcription)
       IN  IF r.ok
           THEN /\ crops' = [crops EXCEPT ![p] = r.val]
                /\ Goto(p, "load")
           ELSE /\ Fail(p, r.err)
                /\ UNCHANGED crops
    /\ UNCHANGED <<fsVars, call, audio, nextCrop, moved, nsaves, histVars, fnVars>>

\* _save_audio_crops loads transcription.audio_path: lines 207-211
LoadAudio(p) ==
    /\ pc[p] = "load"
    /\ LET audio_path == call[p].transcription.audio_path
       IN  IF Exists(audio_path)
           THEN /\ audio' = [audio EXCEPT ![p] = audioFiles[audio_path]]
                /\ base' = [base EXCEPT ![p] = [lines |-> Len(metadata.lines),
                                                 files |-> DOMAIN cropFiles]]
                /\ exports' = [exports EXCEPT ![audio_path.stem] = Min(@ + 1, 2)]
                /\ Goto(p, IF Len(crops[p]) = 0 THEN "metadata" ELSE "export")
           ELSE /\ Fail(p, "FileNotFoundError")
                /\ UNCHANGED <<audio, histVars>>
    /\ UNCHANGED <<fsVars, call, crops, nextCrop, moved, nsaves, fnVars>>

\* Mutant: the sequence number is left out of the file name
CropFileNameOfSource(crop_idx, extension) ==
    [crop_idx |-> [audio_source |-> crop_idx.audio_source, crop_id |-> <<>>],
     extension |-> extension]

\* f'{crop_idx}{extension}'
CropFileName(crop_idx, extension) == [crop_idx |-> crop_idx, extension |-> extension]

\* one turn of the export loop of _save_audio_crops: lines 212-218
ExportCrop(p) ==
    /\ pc[p] = "export"
    /\ LET item == crops[p][nextCrop[p]]
           crop_path == CropFileName(item.key, Suffix(call[p].transcription.audio_path))
           clip == [start_ms |-> ClipStart(item.val),
                    end_ms |-> ClipEnd(item.val, audio[p]),
                    audio_len |-> audio[p],
                    complete |-> TRUE]
       IN  cropFiles' = (crop_path :> clip) @@ cropFiles
    /\ nextCrop' = [nextCrop EXCEPT ![p] = @ + 1]
    /\ Goto(p, IF nextCrop[p] = Len(crops[p]) THEN "metadata" ELSE "export")
    /\ UNCHANGED <<audioFiles, dsExists, dsSubdir, metadata, call, crops, audio,
                   moved, nsaves, histVars, fnVars>>

\* Mutant: the exception of the export is swallowed and the save goes on
ExportCropFailsSwallowed(p) ==
    /\ pc[p] = "export"
    /\ Goto(p, "metadata")
    /\ UNCHANGED <<fsVars, call, crops, audio, nextCrop, moved, nsaves, histVars, fnVars>>

\* audio_segment.export raises in a turn of the export loop (disk full, no
\* permission): line 217. The exception leaves _save_audio_crops and save; the
\* file at crop_path is as it was, or was opened and holds a truncated clip.
ExportCropFails(p) ==
    /\ pc[p] = "export"
    /\ LET item == crops[p][nextCrop[p]]
           crop_path == CropFileName(item.key, Suffix(call[p].transcription.audio_path))
           clip == [start_ms |-> ClipStart(item.val),
                    end_ms |-> ClipEnd(item.val, audio[p]),
                    audio_len |-> audio[p],
                    complete |-> FALSE]
       IN  \E opened \in BOOLEAN :
              cropFiles' = IF opened THEN (crop_path :> clip) @@ cropFiles ELSE cropFiles
    /\ Fail(p, "OSError")
    /\ UNCHANGED <<audioFiles, dsExists, dsSubdir, metadata, call, crops, audio,
                   nextCrop, moved, nsaves, histVars, fnVars>>

\* Mutant: the file is opened with 'w'
save_transcription_truncate(old, audios_crops) ==
    [exists |-> TRUE, lines |-> MetadataLines(audios_crops)]

\* _save_transcription: open(..., 'a') and one line per crop: lines 220-231
save_transcription(old, audios_crops) ==
    [exists |-> TRUE, lines |-> old.lines \o MetadataLines(audios_crops)]

\* the metadata lines are appended and save returns: line 268
AppendMetadata(p) ==
    /\ pc[p] = "metadata"
    /\ metadata' = save_transcription(metadata, crops[p])
    /\ Goto(p, "done")
    /\ UNCHANGED <<audioFiles, dsExists, dsSubdir, cropFiles, call, crops, audio,
                   nextCrop, moved, nsaves, histVars, fnVars>>

-----------------------------------------------------------------------------
(* The transcription pipeline: TranscriptionPipeline.__call__ *)

Engines == {"dummy", "whisper"}
\* output_dir: Optional[Path]
OutputDirs == {"None", "out"}
Stages == <<"check_audio", "process", "save_output">>

NoPipe ==
    [pc |-> "idle", audio_path |-> AudioPath("in1", "a"), output_dir |-> "None",
     engine |-> "dummy", unreadable |-> {}, is_valid |-> FALSE, output |-> <<>>,
     err |-> "", saved |-> {}, ran |-> <<>>]

\* Mutant: every path is valid
check_audio_true(audio_path) == TRUE

\* BasicTranscriptionPipeline.check_audio: the file exists
check_audio(audio_path) == Exists(audio_path)

\* is_valid = self.check_audio(audio_path); if not is_valid: raise ValueError
CheckAudio ==
    /\ pipe.pc = "check"
    /\ LET is_valid == check_audio(pipe.audio_path)
       IN  pipe' = [pipe EXCEPT !.ran = Append(@, "check_audio"),
                                !.is_valid = is_valid,
                                !.pc = IF is_valid THEN "process" ELSE "failed",
                                !.err = IF is_valid THEN "" ELSE "ValueError"]
    /\ UNCHANGED <<fnIn, fnOut, fsVars, procVars>>

\* output = self.process(audio_path): the dummy engine returns its greeting
\* without opening the file, a Whisper engine decodes the file and raises if
\* it cannot
Process ==
    /\ pipe.pc = "process"
    /\ IF pipe.engine = "whisper" /\ pipe.audio_path \in pipe.unreadable
       THEN pipe' = [pipe EXCEPT !.ran = Append(@, "process"), !.pc = "failed",
                                 !.err = "RuntimeError"]
       ELSE \E segs \in IF pipe.engine = "dummy" THEN {<<Greeting>>}
                                                  ELSE {<<>>, <<Seg1, Seg2>>} :
               pipe' = [pipe EXCEPT
                           !.ran = Append(@, "process"),
                           !.pc = "save",
                           !.output = [TranscriptionOutput(pipe.audio_path, segs)
                                           EXCEPT !.engine = pipe.engine]]
    /\ UNCHANGED <<fnIn, fnOut, fsVars, procVars>>

\* self.save_output(output, output_dir); return output
SaveOutput ==
    /\ pipe.pc = "save"
    /\ pipe' = [pipe EXCEPT
                   !.ran = Append(@, "save_output"),
                   !.pc = "done",
                   !.saved = IF pipe.output_dir = "None" THEN @
                             ELSE @ \cup {[dir |-> pipe.output_dir,
                                           stem |-> Stem(pipe.audio_path),
                                           suffix |-> ".json"]}]
    /\ UNCHANGED <<fnIn, fnOut, fsVars, procVars>>

-----------------------------------------------------------------------------
(* Specifications *)

InitProcs ==
    /\ pc = [p \in Procs |-> "idle"]
    /\ call = [p \in Procs |-> NoCall]
    /\ crops = [p \in Procs |-> <<>>]
    /\ audio = [p \in Procs |-> 0]
    /\ nextCrop = [p \in Procs |-> 1]
    /\ err = [p \in Procs |-> ""]
    /\ moved = [p \in Procs |-> FALSE]
    /\ nsaves = 0
    /\ base = [p \in Procs |-> NoBase]
    /\ exports = [st \in Stems |-> 0]

\* the source audio files lie outside the dataset directory, which is absent,
\* empty, or holds a subdirectory
InitFiles ==
    /\ audioFiles = (AudioPath("in1", "a") :> 1100) @@ (AudioPath("in2", "a") :> 400)
                        @@ (AudioPath("in1", "b") :> 1100)
    /\ dsExists \in BOOLEAN
    /\ dsSubdir \in BOOLEAN
    /\ dsSubdir => dsExists
    /\ cropFiles = <<>>
    /\ metadata = NoMetadata

\* save calls made one after the other by one caller
Init ==
    /\ InitFiles
    /\ InitProcs
    /\ fnIn = <<>>
    /\ fnOut = NoOut
    /\ pipe = NoPipe

Step(p) ==
    \/ Save(p)
    \/ EnsureDatasetDir(p)
    \/ IngestSourceAudio(p)
    \/ Consolidate(p)
    \/ LoadAudio(p)
    \/ ExportCrop(p)
    \/ ExportCropFails(p)
    \/ AppendMetadata(p)

Next == Step("p1")

Spec == Init /\ [][Next]_vars

\* the functions applied to every segment list of up to MaxLen segments
InitFn ==
    /\ audioFiles = <<>>
    /\ dsExists = FALSE
    /\ dsSubdir = FALSE
    /\ cropFiles = <<>>
    /\ metadata = NoMetadata
    /\ InitProcs
    /\ fnIn \in SeqsUpTo(Segments, MaxLen)
    /\ fnOut = NoOut
    /\ pipe = NoPipe

NextFn ==
    \/ FnMerge
    \/ \E strategy \in Strategies, stem \in Stems : FnStrategy(strategy, stem)
    \/ \E audio_len \in Durations : FnClip(audio_len)
    \/ \E audio_path \in JsonPaths : FnRoundTrip(audio_path)

SpecFn == InitFn /\ [][NextFn]_vars

\* one call of the pipeline for every audio path, engine and output directory,
\* some of the audio files on disk being unreadable
InitPipe ==
    /\ audioFiles = (AudioPath("in1", "a") :> 1100) @@ (AudioPath("in2", "a") :> 400)
                        @@ (AudioPath("in1", "b") :> 1100)
    /\ dsExists = FALSE
    /\ dsSubdir = FALSE
    /\ cropFiles = <<>>
    /\ metadata = NoMetadata
    /\ InitProcs
    /\ fnIn = <<>>
    /\ fnOut = NoOut
    /\ \E audio_path \in AudioPaths, output_dir \in OutputDirs, engine \in Engines,
          unreadable \in SUBSET InitialSources :
          pipe = [NoPipe EXCEPT !.pc = "check", !.audio_path = audio_path,
                                !.output_dir = output_dir, !.engine = engine,
                                !.unreadable = unreadable]

NextPipe ==
    \/ CheckAudio
    \/ Process
    \/ SaveOutput

SpecPipe == InitPipe /\ [][NextPipe]_vars

-----------------------------------------------------------------------------
(* Properties of the pipeline, under SpecPipe *)

\* the call has gone through check_audio
Checked == Len(pipe.ran) >= 1

\* a is a prefix of b
IsPrefix(a, b) == Len(a) <= Len(b) /\ SubSeq(b, 1, Len(a)) = a

\* C16 as stated: the steps run in the order validation, transcription,
\* save; a call for an audio file that is missing or unreadable ends after
\* the validation with the result "not valid" and without an exception, and
\* neither transcription nor save runs.
C16_InvalidAudioIsResult ==
    /\ IsPrefix(pipe.ran, Stages)
    /\ (Checked /\ (~Exists(pipe.audio_path) \/ pipe.audio_path \in pipe.unreadable)) =>
           /\ ~pipe.is_valid
           /\ pipe.err = ""
           /\ pipe.ran = <<"check_audio">>

\* C16 (amended): the steps run in the order validation, transcription,
\* save; check_audio returns False exactly for a missing file, and the call
\* then raises ValueError without running transcription or save; an existing
\* file passes the validation whether it is readable or not.
C16_InvalidAudioRaises ==
    /\ IsPrefix(pipe.ran, Stages)
    /\ Checked => pipe.is_valid = Exists(pipe.audio_path)
    /\ (Checked /\ ~Exists(pipe.audio_path)) =>
           /\ pipe.pc = "failed"
           /\ pipe.err = "ValueError"
           /\ pipe.ran = <<"check_audio">>
           /\ pipe.output = <<>>
           /\ pipe.saved = {}
    /\ (Checked /\ Exists(pipe.audio_path)) => pipe.err # "ValueError"

\* the call for a missing file has raised after the validation
C16_Witness ==
    /\ pipe.pc = "failed"
    /\ pipe.err = "ValueError"
    /\ ~Exists(pipe.audio_path)
    /\ pipe.output_dir = "out"
    /\ pipe.ran = <<"check_audio">>

-----------------------------------------------------------------------------
(* Properties of the JSON record, under SpecFn *)

\* C14: writing a TranscriptionOutput with to_json and reading it back with
\* from_json returns, without raising, an output with the same audio path,
\* engine and language and the same segments in the same order, for segment
\* lists of every length up to MaxLen.
C14_JsonRoundTrip ==
    fnOut.op = "json" =>
        /\ fnOut.back.ok
        /\ fnOut.back.val.audio_path = fnOut.output.audio_path
        /\ fnOut.back.val.engine = fnOut.output.engine
        /\ fnOut.back.val.language = fnOut.output.language
        /\ fnOut.back.val.transcription = fnIn
        /\ fnOut.back.val = fnOut.output

\* an output of two segments with different texts, written and read back
C14_Witness ==
    /\ fnOut.op = "json"
    /\ Len(fnIn) = 2
    /\ fnIn[1] # fnIn[2]
    /\ fnOut.output.audio_path = AudioPath("in1", "a")
    /\ DictGet(fnOut.json, "audio_path") = <<"in1", "/", "a", ".wav">>
    /\ Len(fnOut.back.val.transcription) = 2

-----------------------------------------------------------------------------
(* Properties of TranscriptionSegment.merge, under SpecFn *)

NonDecreasingStarts(segs) ==
    \A i \in 1..(Len(segs) - 1) : segs[i].start_ms <= segs[i + 1].start_ms

TextsOf(segs) == [i \in 1..Len(segs) |-> segs[i].text]

\* ' '.join(texts)
RECURSIVE JoinSpace(_)
JoinSpace(texts) ==
    IF Len(texts) = 0 THEN <<>>
    ELSE IF Len(texts) = 1 THEN texts[1]
    ELSE texts[1] \o <<" ">> \o JoinSpace(Tail(texts))

\* C5: merging N >= 1 segments with non-decreasing starts returns a segment
\* that starts where the first one starts and ends where the last one ends.
C5_MergeSpan ==
    (fnOut.op = "merge" /\ Len(fnIn) >= 1 /\ NonDecreasingStarts(fnIn))
        => /\ fnOut.ok
           /\ fnOut.seg.start_ms = fnIn[1].start_ms
           /\ fnOut.seg.end_ms = fnIn[Len(fnIn)].end_ms

C5_Witness ==
    /\ fnOut.op = "merge"
    /\ Len(fnIn) = 3
    /\ NonDecreasingStarts(fnIn)
    /\ fnIn[1].start_ms < fnIn[2].start_ms
    /\ fnIn[1].end_ms < fnIn[2].end_ms
    /\ fnIn[2].end_ms < fnIn[3].end_ms
    /\ fnOut.seg.end_ms = fnIn[3].end_ms

\* C6 as stated: the merged text is the texts joined by a single space, and
\* merging one segment changes at most the whitespace around its text.
C6_JoinedBySingleSpace ==
    (fnOut.op = "merge" /\ Len(fnIn) >= 1)
        => /\ fnOut.ok
           /\ fnOut.seg.text = JoinSpace(TextsOf(fnIn))
           /\ Len(fnIn) = 1 =>
                 /\ fnOut.seg.start_ms = fnIn[1].start_ms
                 /\ fnOut.seg.end_ms = fnIn[1].end_ms
                 /\ Strip(fnOut.seg.text) = Strip(fnIn[1].text)

\* C6 amended: the merged text is one space followed by the texts joined by a
\* single space (every text, the first one too, is preceded by a space), so it
\* is the single-space join up to surrounding whitespace; merging one segment
\* keeps start_ms and end_ms and puts one space before the text.
C6_LeadingSpaceJoin ==
    (fnOut.op = "merge" /\ Len(fnIn) >= 1)
        => /\ fnOut.ok
           /\ fnOut.seg.text = <<" ">> \o JoinSpace(TextsOf(fnIn))
           /\ Strip(fnOut.seg.text) = Strip(JoinSpace(TextsOf(fnIn)))
           /\ Len(fnIn) = 1 =>
                 /\ fnOut.seg.start_ms = fnIn[1].start_ms
                 /\ fnOut.seg.end_ms = fnIn[1].end_ms
                 /\ fnOut.seg.text = <<" ">> \o fnIn[1].text
                 /\ Strip(fnOut.seg.text) = Strip(fnIn[1].text)

C6_Witness ==
    /\ fnOut.op = "merge"
    /\ Len(fnIn) = 2
    /\ fnIn[1].text = <<"a">>
    /\ fnIn[2].text = <<" ", "b", " ">>
    /\ fnOut.seg.text = <<" ", "a", " ", " ", "b", " ">>

\* C7: merging zero segments raises the empty-input error (ValueError) and
\* returns no segment.
C7_MergeEmptyRaises ==
    (fnOut.op = "merge" /\ Len(fnIn) = 0) => (~fnOut.ok /\ fnOut.err = "ValueError")

C7_Witness ==
    /\ fnOut.op = "merge"
    /\ fnIn = <<>>
    /\ ~fnOut.ok

-----------------------------------------------------------------------------
(* Properties of the consolidation strategies, under SpecFn *)

\* silence between segment i and segment i + 1
Gap(segs, i) == segs[i + 1].start_ms - segs[i].end_ms

\* the positions after which the silence exceeds 500 ms
Breaks(segs) == {i \in 1..(Len(segs) - 1) : Gap(segs, i) > 500}

NthBreak(segs, k) ==
    CHOOSE b \in Breaks(segs) : Cardinality({c \in Breaks(segs) : c <= b}) = k

\* first and last position of the k-th of the groups the breaks delimit
GroupLo(segs, k) == IF k = 1 THEN 1 ELSE 1 + NthBreak(segs, k - 1)
GroupHi(segs, k) ==
    IF k = 1 + Cardinality(Breaks(segs)) THEN Len(segs) ELSE NthBreak(segs, k)

\* the texts of segments lo..hi, each preceded by a space
RECURSIVE Spaced(_, _, _)
Spaced(segs, lo, hi) ==
    IF lo > hi THEN <<>> ELSE <<" ">> \o segs[lo].text \o Spaced(segs, lo + 1, hi)

\* '{stem}_{k:05d}' for k < 10
CropId(stem, k) == [audio_source |-> stem, crop_id |-> <<0, 0, 0, 0, k>>]

\* C2: two segments exactly 500 ms apart are merged into one crop by the
\* threshold strategy; two segments 501 ms apart make two crops.
C2_TieBreak ==
    (fnOut.op = "THRESHOLD" /\ Len(fnIn) = 2)
        => /\ Gap(fnIn, 1) = 500 =>
                 /\ fnOut.ok
                 /\ Len(fnOut.crops) = 1
                 /\ fnOut.crops[1].val.start_ms = fnIn[1].start_ms
                 /\ fnOut.crops[1].val.end_ms = fnIn[2].end_ms
           /\ Gap(fnIn, 1) = 501 =>
                 /\ fnOut.ok
                 /\ Len(fnOut.crops) = 2
                 /\ fnOut.crops[1].val.start_ms = fnIn[1].start_ms
                 /\ fnOut.crops[1].val.end_ms = fnIn[1].end_ms
                 /\ fnOut.crops[2].val.start_ms = fnIn[2].start_ms
                 /\ fnOut.crops[2].val.end_ms = fnIn[2].end_ms

C2_Witness ==
    /\ fnOut.op = "THRESHOLD"
    /\ Len(fnIn) = 2
    /\ Gap(fnIn, 1) = 500
    /\ fnIn[2].start_ms < fnIn[2].end_ms
    /\ Len(fnOut.crops) = 1

\* C3: on a non-empty list the threshold strategy returns one crop per group,
\* the trailing group included: 1 + (number of gaps above the threshold)
\* crops, numbered 0, 1, ... in order, the k-th crop being the merge of the
\* k-th run of consecutive segments, so that every segment is in exactly one
\* crop, in input order.
C3_ThresholdGroups ==
    (fnOut.op = "THRESHOLD" /\ Len(fnIn) >= 1)
        => /\ fnOut.ok
           /\ Len(fnOut.crops) = 1 + Cardinality(Breaks(fnIn))
           /\ \A k \in 1..Len(fnOut.crops) :
                 LET lo == GroupLo(fnIn, k)
                     hi == GroupHi(fnIn, k)
                 IN  /\ fnOut.crops[k].key = CropId(fnOut.stem, k - 1)
                     /\ fnOut.crops[k].val.start_ms = fnIn[lo].start_ms
                     /\ fnOut.crops[k].val.end_ms = fnIn[hi].end_ms
                     /\ fnOut.crops[k].val.text = Spaced(fnIn, lo, hi)

C3_Witness ==
    /\ fnOut.op = "THRESHOLD"
    /\ Len(fnIn) = 3
    /\ Breaks(fnIn) = {2}
    /\ Len(fnOut.crops) = 2
    /\ fnOut.crops[2].val.text = <<" ">> \o fnIn[3].text

\* C4: the identity strategy on k >= 0 segments returns k crops keyed
\* '{stem}_{i:05d}', i = 0..k-1, in input order, crop i being segment i.
C4_Identity ==
    fnOut.op = "NOTHING"
        => /\ fnOut.ok
           /\ Len(fnOut.crops) = Len(fnIn)
           /\ \A i \in 1..Len(fnIn) :
                 /\ fnOut.crops[i].key = CropId(fnOut.stem, i - 1)
                 /\ fnOut.crops[i].val = fnIn[i]

C4_Witness ==
    /\ fnOut.op = "NOTHING"
    /\ Len(fnIn) = 3
    /\ Len(fnOut.crops) = 3
    /\ fnIn[1] # fnIn[2]
    /\ fnOut.crops[3].key = CropId("b", 2)

\* C9: the exported range of a segment is [max(0, start_ms - 200),
\* min(end_ms + 200, T)): it starts at or after 0, ends at or before the audio
\* duration T, and is not reversed when the segment starts within the audio.
C9_Clamp ==
    fnOut.op = "clip"
        => \A i \in 1..Len(fnIn) :
              LET s == fnIn[i].start_ms
                  e == fnIn[i].end_ms
                  T == fnOut.audio_len
                  c == fnOut.clips[i]
              IN  /\ c.start_ms = IF s - 200 > 0 THEN s - 200 ELSE 0
                  /\ c.end_ms = IF e + 200 < T THEN e + 200 ELSE T
                  /\ 0 <= c.start_ms
                  /\ c.end_ms <= T
                  /\ e + 200 > T => c.end_ms = T
                  /\ s <= T => c.start_ms <= c.end_ms

C9_Witness ==
    /\ fnOut.op = "clip"
    /\ Len(fnIn) = 1
    /\ fnIn[1].start_ms = 501
    /\ fnIn[1].end_ms = 1002
    /\ fnOut.audio_len = 1100
    /\ fnOut.clips[1] = [start_ms |-> 301, end_ms |-> 1100]

-----------------------------------------------------------------------------
(* Properties of CroquisOutputSaver.save, under Spec *)

\* the save of caller p has returned or raised
Finished(p) == pc[p] \in {"done", "failed"}

\* every crop of the mapping has its audio file, and there are no other crop files
OneFilePerCrop(p) ==
    /\ \A i \in 1..Len(crops[p]) :
          CropFileName(crops[p][i].key, Suffix(call[p].transcription.audio_path))
              \in DOMAIN cropFiles
    /\ Cardinality(DOMAIN cropFiles) = Len(crops[p])

\* C1: a first save, into an absent or empty dataset directory, of a
\* transcription whose audio file exists outside the dataset directory and
\* whose consolidation returns, completes: the audio file is then in the
\* dataset directory, every crop has its audio file and metadata.txt has one
\* line per crop.
C1_FreshSaveCompletes ==
    LET t == call["p1"].transcription
    IN  (/\ nsaves = 1
         /\ Finished("p1")
         /\ ~dsSubdir
         /\ t.audio_path \in InitialSources
         /\ to_croquis_format(call["p1"].strategy, t).ok)
            => /\ pc["p1"] = "done"
               /\ Exists(DatasetPath(t.audio_path))
               /\ Len(crops["p1"]) = Len(to_croquis_format(call["p1"].strategy, t).val)
               /\ OneFilePerCrop("p1")
               /\ Len(metadata.lines) = Len(crops["p1"])

IsStripOf(t, text) ==
    /\ t = <<>> \/ (t[1] \notin Whitespace /\ t[Len(t)] \notin Whitespace)
    /\ \E a \in 0..Len(text), b \in 0..Len(text) :
          /\ a + Len(t) + b = Len(text)
          /\ SubSeq(text, a + 1, a + Len(t)) = t
          /\ \A i \in (1..a) \cup ((a + Len(t) + 1)..Len(text)) : text[i] \in Whitespace

\* C10: appending the metadata keeps the lines the file had, in place, and
\* adds after them one line per crop, in the order of the crop mapping, made
\* of the crop id and the crop's text without surrounding whitespace.
C10_AppendOnly ==
    [][\A p \in Procs :
          (pc[p] = "metadata" /\ pc'[p] # "metadata") =>
              LET old == metadata.lines
                  new == metadata'.lines
              IN  /\ metadata'.exists
                  /\ Len(new) = Len(old) + Len(crops[p])
                  /\ SubSeq(new, 1, Len(old)) = old
                  /\ \A i \in 1..Len(crops[p]) :
                        /\ new[Len(old) + i].crop_idx = crops[p][i].key
                        /\ IsStripOf(new[Len(old) + i].text, crops[p][i].val.text)
    ]_vars

C10_Witness ==
    /\ pc["p1"] = "done"
    /\ Len(crops["p1"]) = 2
    /\ Len(metadata.lines) = 3
    /\ crops["p1"][2].val.text = <<" ", "b", " ">>
    /\ metadata.lines[3].text = <<"b">>
    /\ metadata.lines[1].text = <<"a">>

-----------------------------------------------------------------------------
(* Properties of the dataset directory step and of the two modes, under Spec *)

\* the save of caller p is between its call and its end
Running(p) == pc[p] \notin {"idle", "done", "failed"}

\* the step is the dataset directory step of a WRITE-mode save that finds the directory
ClearingStep(p) ==
    /\ pc[p] = "ensure"
    /\ pc'[p] # "ensure"
    /\ call[p].mode = "WRITE"
    /\ dsExists

\* C11: the dataset directory step of a WRITE-mode save that finds the
\* directory leaves no audio file, no crop file and no metadata file in it, so
\* that a WRITE-mode save that returns leaves exactly its own lines in
\* metadata.txt; every step of an APPEND-mode save keeps every audio file and
\* crop file of the dataset directory and keeps the metadata lines in place.
C11_WriteClearsAppendKeeps ==
    [][\A p \in Procs :
          /\ ClearingStep(p) =>
                /\ DatasetAudio' = {}
                /\ cropFiles' = <<>>
                /\ metadata' = NoMetadata
          /\ (Running(p) /\ call[p].mode = "WRITE" /\ pc'[p] = "done") =>
                metadata'.lines = MetadataLines(crops[p])
          /\ (Running(p) /\ call[p].mode = "APPEND") =>
                /\ DatasetAudio \subseteq DatasetAudio'
                /\ DOMAIN cropFiles \subseteq DOMAIN cropFiles'
                /\ metadata.exists => metadata'.exists
                /\ IsPrefix(metadata.lines, metadata'.lines)
    ]_vars

\* C17: the dataset directory step of a WRITE-mode save that finds the
\* directory with a subdirectory in it does not raise, deletes every file
\* directly inside the directory, and leaves the subdirectory and the
\* directory in place.
C17_ClearKeepsSubdirectory ==
    [][\A p \in Procs :
          (ClearingStep(p) /\ dsSubdir) =>
              /\ pc'[p] = "ingest"
              /\ DatasetAudio' = {}
              /\ cropFiles' = <<>>
              /\ metadata' = NoMetadata
              /\ dsSubdir'
              /\ dsExists'
    ]_vars

-----------------------------------------------------------------------------
(* Properties of the dataset after a save that returned, under Spec *)

\* the crop file paths of the crop mapping of p's save
CropPaths(p) ==
    {CropFileName(crops[p][i].key, Suffix(call[p].transcription.audio_path)) :
        i \in 1..Len(crops[p])}

\* C12 as stated: whenever a save has returned, metadata.txt has as many
\* lines as the dataset directory has crop audio files.
C12_LineCountIsFileCount ==
    \A p \in Procs :
        pc[p] = "done" => Len(metadata.lines) = Cardinality(DOMAIN cropFiles)

\* C12 (amended): when a save has returned, metadata.txt has gained exactly
\* one line per crop of the save, the crop audio files are those found when
\* the export began together with one file per crop of the save, and
\* the line count equals the file count if the two were equal when the export
\* began and none of the save's crop files was there yet.
C12_OneLinePerCropWritten ==
    \A p \in Procs :
        pc[p] = "done" =>
            /\ Len(metadata.lines) = base[p].lines + Len(crops[p])
            /\ DOMAIN cropFiles = base[p].files \cup CropPaths(p)
            /\ Cardinality(CropPaths(p)) = Len(crops[p])
            /\ (/\ base[p].lines = Cardinality(base[p].files)
                /\ CropPaths(p) \cap base[p].files = {})
                   => Len(metadata.lines) = Cardinality(DOMAIN cropFiles)

\* a save of two crops has returned in a dataset that held no crop file and
\* no line: two files, two lines
C12_Witness ==
    /\ pc["p1"] = "done"
    /\ Len(crops["p1"]) = 2
    /\ base["p1"] = NoBase
    /\ Len(metadata.lines) = 2
    /\ Cardinality(DOMAIN cropFiles) = 2

\* the crop file path of the current turn of p's export loop
CropPathAt(p) ==
    CropFileName(crops[p][nextCrop[p]].key, Suffix(call[p].transcription.audio_path))

\* the step is a turn of p's export loop that writes the crop file
WritesCrop(p) ==
    /\ pc[p] = "export"
    /\ nextCrop'[p] = nextCrop[p] + 1 \/ cropFiles' # cropFiles

\* no crop id is on two lines
DistinctIds(lines) ==
    \A i \in 1..Len(lines), j \in 1..Len(lines) :
        lines[i].crop_idx = lines[j].crop_idx => i = j

\* C13 as stated: no turn of an export loop writes to a crop file path that
\* exists, and no crop id is on two metadata lines.
C13_NeverOverwrites ==
    [][/\ \A p \in Procs : WritesCrop(p) => CropPathAt(p) \notin DOMAIN cropFiles
       /\ DistinctIds(metadata'.lines)
    ]_vars

\* C13 (amended): a turn of the export loop of the first save that exports
\* for its source stem writes to a path that does not exist, and as long as no
\* source stem has been exported by two saves no crop id is on two metadata lines.
C13_NoOverwriteForNewStem ==
    [][/\ \A p \in Procs :
             (WritesCrop(p) /\ exports[Stem(call[p].transcription.audio_path)] = 1)
                 => CropPathAt(p) \notin DOMAIN cropFiles
       /\ (\A st \in Stems : exports'[st] <= 1) => DistinctIds(metadata'.lines)
    ]_vars

\* the first save that exported for stem a wrote two crop files and two lines
C13_Witness ==
    /\ pc["p1"] = "done"
    /\ exports = [st \in Stems |-> IF st = "a" THEN 1 ELSE 0]
    /\ Cardinality(DOMAIN cropFiles) = 2
    /\ Len(metadata.lines) = 2
    /\ metadata.lines[1].crop_idx # metadata.lines[2].crop_idx

-----------------------------------------------------------------------------
(* Properties of a save that fails, under Spec *)

\* the step writes no crop file and no metadata line
WritesNothing ==
    /\ \A f \in DOMAIN cropFiles' : f \in DOMAIN cropFiles /\ cropFiles'[f] = cropFiles[f]
    /\ metadata' \in {metadata, NoMetadata}

\* C15: the consolidation step of a save with the NORMAL strategy raises
\* NotImplementedError for every transcription, the empty one included, and
\* leaves no crop mapping; no step of such a save writes a crop file or a
\* metadata line.
C15_NormalNotImplemented ==
    [][\A p \in Procs :
          (Running(p) /\ call[p].strategy = "NORMAL") =>
              /\ WritesNothing
              /\ pc'[p] \notin {"load", "export", "metadata", "done"}
              /\ pc[p] = "consolidate" =>
                    /\ pc'[p] = "failed"
                    /\ err'[p] = "NotImplementedError"
                    /\ crops'[p] = <<>>
    ]_vars

\* a NORMAL save of an empty transcription has raised
C15_Witness ==
    /\ pc["p1"] = "failed"
    /\ err["p1"] = "NotImplementedError"
    /\ call["p1"].strategy = "NORMAL"
    /\ call["p1"].transcription.transcription = <<>>
    /\ crops["p1"] = <<>>

\* the crop file of crop id crop_idx written by p's save is on disk, whole
HasCropFile(p, crop_idx, files) ==
    LET f == CropFileName(crop_idx, Suffix(call[p].transcription.audio_path))
    IN  f \in DOMAIN files /\ files[f].complete

\* C18: when a turn of the export loop raises, the crop files written by the
\* earlier turns of this save stay as they are, metadata.txt is as the save
\* found it, and the save never goes on to append its metadata; in every
\* state of a save, each line the save has added to metadata.txt has its crop
\* audio file on disk.
C18_PartialExportFailure ==
    [][\A p \in Procs :
          /\ (pc[p] = "export" /\ pc'[p] = "failed") =>
                /\ \A i \in 1..(nextCrop[p] - 1) :
                      /\ HasCropFile(p, crops[p][i].key, cropFiles')
                      /\ \A f \in DOMAIN cropFiles :
                            f # CropPathAt(p) =>
                                f \in DOMAIN cropFiles' /\ cropFiles'[f] = cropFiles[f]
                /\ metadata' = metadata
                /\ Len(metadata'.lines) = base[p].lines
          /\ pc[p] = "failed" => pc'[p] \in {"failed", "ensure"}
          /\ pc'[p] \in {"export", "metadata", "done"} =>
                \A i \in (base'[p].lines + 1)..Len(metadata'.lines) :
                    HasCropFile(p, metadata'.lines[i].crop_idx, cropFiles')
    ]_vars

\* the second turn of an export loop has raised: the first crop file is on
\* disk and metadata.txt has no line of this save
C18_Witness ==
    /\ pc["p1"] = "failed"
    /\ err["p1"] = "OSError"
    /\ Len(crops["p1"]) = 2
    /\ nextCrop["p1"] = 2
    /\ HasCropFile("p1", crops["p1"][1].key, cropFiles)
    /\ ~HasCropFile("p1", crops["p1"][2].key, cropFiles)
    /\ Len(metadata.lines) = base["p1"].lines

-----------------------------------------------------------------------------
(* Properties of the sentinel end_ms = -1, under Spec *)

\* C19: the crop exported for a segment whose end_ms is the sentinel -1
\* extends to the end of the audio: the clip written by the export turn ends
\* at len(audio), not at a value computed from -1.
C19_SentinelResolved ==
    [][\A p \in Procs :
          (/\ pc[p] = "export"
           /\ nextCrop'[p] = nextCrop[p] + 1
           /\ crops[p][nextCrop[p]].val.end_ms = -1)
              => cropFiles'[CropPathAt(p)].end_ms = audio[p]
    ]_vars

-----------------------------------------------------------------------------
(* Properties of serial and of interleaved saves *)

\* every line of metadata.txt has its crop audio file (all sources of the
\* model have the suffix .wav)
EveryLineHasCropFile ==
    \A i \in 1..Len(metadata.lines) :
        CropFileName(metadata.lines[i].crop_idx, ".wav") \in DOMAIN cropFiles

\* C20: when the save calls are made one after the other, no state in which
\* the save has returned or raised has a metadata line without its crop
\* audio file.
C20_SerialSavesKeepCropFiles ==
    Finished("p1") => EveryLineHasCropFile

\* the state after a first save, of in1/a.wav, that moved the file into the
\* empty dataset directory and failed to load it
AfterFirstSave ==
    /\ audioFiles = (AudioPath(DatasetDir, "a") :> 1100) @@ (AudioPath("in2", "a") :> 400)
                        @@ (AudioPath("in1", "b") :> 1100)
    /\ dsExists = TRUE
    /\ dsSubdir = FALSE
    /\ cropFiles = <<>>
    /\ metadata = NoMetadata
    /\ pc = [p \in Procs |-> IF p = "p1" THEN "failed" ELSE "idle"]
    /\ call = [p \in Procs |-> NoCall]
    /\ crops = [p \in Procs |-> <<>>]
    /\ audio = [p \in Procs |-> 0]
    /\ nextCrop = [p \in Procs |-> 1]
    /\ err = [p \in Procs |-> IF p = "p1" THEN "FileNotFoundError" ELSE ""]
    /\ moved = [p \in Procs |-> p = "p1"]
    /\ nsaves = 1
    /\ base = [p \in Procs |-> NoBase]
    /\ exports = [st \in Stems |-> 0]
    /\ fnIn = <<>>
    /\ fnOut = NoOut
    /\ pipe = NoPipe

\* save calls of two callers whose steps interleave, after that first save
NextConc == \E p \in Procs : Step(p)

SpecConc == AfterFirstSave /\ [][NextConc]_vars

\* Interleaved saves in a dataset directory without subdirectory: no state in
\* which both callers are at rest has a metadata line without its crop file.
\* SpecConc violates it: the clearing step of a WRITE-mode save deletes the
\* crop file the other save exported before that save appends its line.
InterleavedSavesKeepCropFiles ==
    (~dsSubdir /\ \A p \in Procs : ~Running(p)) => EveryLineHasCropFile

-----------------------------------------------------------------------------
(* Properties of the strategies on a transcription without segments, under SpecFn *)

\* C21: on a transcription with zero segments the threshold strategy does
\* not return: its last-group emission calls merge on an empty group and the
\* call raises the ValueError merge raises on an empty list, with no crop
\* mapping returned; the identity strategy returns an empty mapping on the
\* same input.
C21_ThresholdOnEmptyRaises ==
    fnIn = <<>> =>
        /\ fnOut.op = "THRESHOLD" =>
              /\ ~fnOut.ok
              /\ fnOut.err = "ValueError"
              /\ fnOut.err = merge(<<>>).err
              /\ fnOut.crops = <<>>
        /\ fnOut.op = "NOTHING" =>
              /\ fnOut.ok
              /\ fnOut.crops = <<>>

\* the threshold strategy has raised on a transcription without segments
C21_Witness ==
    /\ fnIn = <<>>
    /\ fnOut.op = "THRESHOLD"
    /\ ~fnOut.ok
    /\ fnOut.err = "ValueError"

-----------------------------------------------------------------------------
(* Properties of a save that fails in the consolidation, under Spec *)

\* the step is the consolidation of p's save raising
ConsolidationFails(p) == pc[p] = "consolidate" /\ pc'[p] = "failed"

=============================================================================
